---- MODULE Spec2Model ----
(***************************************************************************)
(* A model of gunicorn_color.Logger: the access-log rendering pipeline     *)
(* (colorize_atoms, access) and the handler installer (_set_handler).      *)
(*                                                                         *)
(* Strings are sequences of tokens.  A token is a record: a piece of plain *)
(* text, an opening markup tag "[style]" or a closing markup tag "[/]" /   *)
(* "[/name]".  The latency and status strings are sequences of one-        *)
(* character text tokens, so that float() and s[0] can be computed.        *)
(***************************************************************************)
EXTENDS Integers, Sequences, FiniteSets, TLC

VARIABLES
    cfg,                 \* host settings: accesslog, logconfig, syslog (truthiness)
    handlers,            \* log.handlers of every channel
    nextId,              \* identity of the next handler object constructed
    CODE_COLOR_MAPPING,  \* Logger.CODE_COLOR_MAPPING (class attribute, a dict)
    lastTime,            \* LogRender._last_time
    now,                 \* datetime.datetime.now(), in clock ticks
    last                 \* what the most recent call did (observation)

vars == <<cfg, handlers, nextId, CODE_COLOR_MAPPING, lastTime, now, last>>

----------------------------------------------------------------------------
(* Bounds *)

\* the clock runs from 0 to MaxClock ticks
MaxClock == 2
\* handler objects constructed in a run, construction included
MaxSinks == 7

\* clock ticks in a second: "[%X]" shows the time to the second
TicksPerSecond == 2

----------------------------------------------------------------------------
(* Tokens and strings *)

T(s) == [kind |-> "text", val |-> s]
Open(style) == [kind |-> "open", val |-> style]
Close(name) == [kind |-> "close", val |-> name]

RECURSIVE Flatten(_)
Flatten(ss) == IF ss = <<>> THEN <<>> ELSE Head(ss) \o Flatten(Tail(ss))

RECURSIVE JoinSp(_)
\* " ".join(words)
JoinSp(words) ==
    IF words = <<>> THEN ""
    ELSE IF Len(words) = 1 THEN words[1]
    ELSE words[1] \o " " \o JoinSp(Tail(words))

Digits == {"0", "1", "2", "3", "4", "5", "6", "7", "8", "9"}
DigitVal(c) ==
    CASE c = "0" -> 0 [] c = "1" -> 1 [] c = "2" -> 2 [] c = "3" -> 3
      [] c = "4" -> 4 [] c = "5" -> 5 [] c = "6" -> 6 [] c = "7" -> 7
      [] c = "8" -> 8 [] c = "9" -> 9

Fields == {"m", "U", "q", "L", "s", "f"}

----------------------------------------------------------------------------
(* The class attributes *)

BuiltinMapping ==
    [k \in {"1", "2", "3", "4", "5"} |->
        CASE k = "1" -> "yellow"
          [] k = "2" -> "green"
          [] k = "3" -> "cyan"
          [] k = "4" -> "magenta"
          [] k = "5" -> "red"]

SLOW_THRESHOLD == 1

----------------------------------------------------------------------------
(* float(str) on the alphabet of the model: an optional sign, decimal      *)
(* digits and at most one ".", with at least one digit.  Any other token   *)
(* (a letter, a markup tag, the placeholder "-" alone, the empty string)   *)
(* makes float() raise ValueError.  The value is num / den.                *)

RECURSIVE ScanDecimal(_, _)
ScanDecimal(chars, acc) ==
    IF chars = <<>> THEN acc
    ELSE LET c == Head(chars) IN
         IF c \in Digits
         THEN ScanDecimal(Tail(chars),
                  [acc EXCEPT !.num = 10 * @ + DigitVal(c),
                              !.den = IF acc.dot THEN 10 * @ ELSE @,
                              !.digits = @ + 1])
         ELSE IF c = "." /\ ~acc.dot
         THEN ScanDecimal(Tail(chars), [acc EXCEPT !.dot = TRUE])
         ELSE [acc EXCEPT !.ok = FALSE]

float(str) ==
    LET chars == [i \in 1..Len(str) |->
                     IF str[i].kind = "text" THEN str[i].val ELSE "["]
        signed == chars # <<>> /\ chars[1] \in {"-", "+"}
        body == IF signed THEN Tail(chars) ELSE chars
        r == ScanDecimal(body, [ok |-> TRUE, num |-> 0, den |-> 1,
                                dot |-> FALSE, digits |-> 0])
    IN  [ok  |-> r.ok /\ r.digits > 0,
         neg |-> signed /\ chars[1] = "-",
         num |-> r.num,
         den |-> r.den]

\* float(x) > n, for a float that parsed
FloatGreater(f, n) == ~f.neg /\ f.num > n * f.den

----------------------------------------------------------------------------
(* gunicorn.glogging.SafeAtoms, the atoms_wrapper_class *)

RECURSIVE EscapeQuotes(_)
\* value.replace('"', '\\"')
EscapeQuotes(str) ==
    IF str = <<>> THEN <<>>
    ELSE IF Head(str) = T("\"")
         THEN <<T("\\"), T("\"")>> \o EscapeQuotes(Tail(str))
         ELSE <<Head(str)>> \o EscapeQuotes(Tail(str))

\* SafeAtoms.__init__
SafeAtoms(atoms) == [k \in DOMAIN atoms |-> EscapeQuotes(atoms[k])]

\* SafeAtoms.__getitem__
SafeGet(safe, k) == IF k \in DOMAIN safe THEN safe[k] ELSE <<T("-")>>

\* LOG_FORMAT % safe_atoms: '%(m)s %(U)s?%(q)s (%(L)s s) "%(f)s"'
LOG_FORMAT(safe_atoms) ==
    LET get(k) == SafeGet(safe_atoms, k)
    IN  Flatten(<< get("m"), <<T(" ")>>, get("U"), <<T("?")>>, get("q"),
                   <<T(" (")>>, get("L"), <<T(" s) \"")>>, get("f"), <<T("\"")>> >>)

----------------------------------------------------------------------------
(* Logger.colorize_atoms *)

\* the string f"[{color + attr_string}]{atoms[key]}[/]"
Wrapped(value, color, attrs) ==
    LET attr_string == IF attrs # <<>> THEN " " \o JoinSp(attrs) ELSE ""
    IN  <<Open(color \o attr_string)>> \o value \o <<Close("")>>

wrap_with_color(atoms, key, color, attrs) ==
    [k \in DOMAIN atoms \cup {key} |->
        IF k = key THEN Wrapped(SafeGet(atoms, key), color, attrs)
        ELSE atoms[k]]

\* a variant of colorize_atoms that compares with >= instead of >
colorize_atoms_AtLeast(atoms) ==
    LET a1 == wrap_with_color(atoms, "U", "cyan", <<>>)
        a2 == wrap_with_color(a1, "q", "cyan", <<>>)
        a3 == wrap_with_color(a2, "m", "blue", <<"bold">>)
        f  == float(SafeGet(a3, "L"))
    IN  IF ~f.ok THEN [exc |-> "ValueError", atoms |-> a3]
        ELSE IF ~f.neg /\ f.num >= SLOW_THRESHOLD * f.den
        THEN [exc |-> "none", atoms |-> wrap_with_color(a3, "L", "red bold", <<>>)]
        ELSE [exc |-> "none", atoms |-> a3]

\* The result is [exc, atoms]: the exception raised ("none" when the call
\* returns) and the mapping as the call leaves it.
colorize_atoms(atoms) ==
    LET a1 == wrap_with_color(atoms, "U", "cyan", <<>>)
        a2 == wrap_with_color(a1, "q", "cyan", <<>>)
        a3 == wrap_with_color(a2, "m", "blue", <<"bold">>)
        f  == float(SafeGet(a3, "L"))
    IN  IF ~f.ok THEN [exc |-> "ValueError", atoms |-> a3]
        ELSE IF FloatGreater(f, SLOW_THRESHOLD)
        THEN [exc |-> "none", atoms |-> wrap_with_color(a3, "L", "red bold", <<>>)]
        ELSE [exc |-> "none", atoms |-> a3]

----------------------------------------------------------------------------
(* rich.text.Text.from_markup (rich.markup.render): text tokens are        *)
(* appended to the plain text, an opening tag is pushed on the style       *)
(* stack, a closing tag pops it ("[/]" the top, "[/name]" the nearest tag  *)
(* of that name) and raises MarkupError when there is nothing to close.    *)

\* index in the stack of the nearest open tag called name, 0 when none
NearestOpen(stack, name) ==
    LET hits == {i \in 1..Len(stack) : stack[i].style = name}
    IN  IF hits = {} THEN 0 ELSE CHOOSE i \in hits : \A j \in hits : j <= i

RemoveAt(seq, i) == SubSeq(seq, 1, i - 1) \o SubSeq(seq, i + 1, Len(seq))

RECURSIVE CloseRest(_, _, _)
\* the tags still open at the end are closed at the end of the text
CloseRest(stack, spans, textLen) ==
    IF stack = <<>> THEN spans
    ELSE LET top == stack[Len(stack)] IN
         CloseRest(SubSeq(stack, 1, Len(stack) - 1),
                   IF top.style # ""
                   THEN Append(spans, [start |-> top.start, end |-> textLen,
                                       style |-> top.style])
                   ELSE spans,
                   textLen)

Reverse(seq) == [i \in 1..Len(seq) |-> seq[Len(seq) + 1 - i]]

RECURSIVE InsertByStart(_, _)
InsertByStart(sorted, sp) ==
    IF sorted = <<>> THEN <<sp>>
    ELSE IF sp.start < Head(sorted).start THEN <<sp>> \o sorted
    ELSE <<Head(sorted)>> \o InsertByStart(Tail(sorted), sp)

RECURSIVE SortByStart(_, _)
\* sorted(spans, key=attrgetter("start")), a stable sort
SortByStart(spans, acc) ==
    IF spans = <<>> THEN acc
    ELSE SortByStart(Tail(spans), InsertByStart(acc, Head(spans)))

RECURSIVE RenderMarkup(_, _, _, _)
RenderMarkup(markup, plain, stack, spans) ==
    IF markup = <<>>
    THEN [exc |-> "none", plain |-> plain,
          spans |-> SortByStart(Reverse(CloseRest(stack, spans, Len(plain))), <<>>)]
    ELSE LET tok == Head(markup) rest == Tail(markup) IN
         CASE tok.kind = "text" ->
                RenderMarkup(rest, Append(plain, tok.val), stack, spans)
           [] tok.kind = "open" ->
                RenderMarkup(rest, plain,
                    Append(stack, [start |-> Len(plain), style |-> tok.val]), spans)
           [] tok.kind = "close" ->
                LET i == IF tok.val = "" THEN Len(stack)
                         ELSE NearestOpen(stack, tok.val)
                IN  IF i = 0
                    THEN [exc |-> "MarkupError", plain |-> plain, spans |-> spans]
                    ELSE RenderMarkup(rest, plain, RemoveAt(stack, i),
                             Append(spans, [start |-> stack[i].start,
                                            end |-> Len(plain),
                                            style |-> stack[i].style]))

from_markup(markup) == RenderMarkup(markup, <<>>, <<>>, <<>>)

----------------------------------------------------------------------------
(* Logger.access *)

\* a variant of the guard that forgets the syslog setting
LoggingDisabled_NoSyslog(c) == ~(c.accesslog \/ c.logconfig)

\* not (self.cfg.accesslog or self.cfg.logconfig or self.cfg.syslog)
LoggingDisabled(c) == ~(c.accesslog \/ c.logconfig \/ c.syslog)

\* dict.setdefault(key, default): the value looked up and the dict afterwards
setdefault(mapping, key, default) ==
    IF key \in DOMAIN mapping
    THEN [value |-> mapping[key], mapping |-> mapping]
    ELSE [value |-> default,
          mapping |-> [k \in DOMAIN mapping \cup {key} |->
                          IF k = key THEN default ELSE mapping[k]]]

\* a variant of StatusText that forgets the colour
StatusText_NoColour(s, status_color) ==
    [plain |-> [i \in 1..Len(s) |-> s[i].val], style |-> <<"bold">>]

\* Text(atoms['s'], style=f"bold {status_color}")
StatusText(s, status_color) ==
    [plain |-> [i \in 1..Len(s) |-> s[i].val], style |-> <<"bold", status_color>>]

\* rich.style.Style.parse of a style definition, given as its words separated
\* by single spaces: empty words vanish in the split
ParseStyle(words) ==
    [bold  |-> \E i \in 1..Len(words) : words[i] = "bold",
     color |-> LET cs == {i \in 1..Len(words) : words[i] \notin {"", "bold"}}
               IN  IF cs = {} THEN "" ELSE words[CHOOSE i \in cs : \A j \in cs : j <= i]]

\* log_time.strftime("[%X]"): the clock time to the second
TimeDisplay(t) == t \div TicksPerSecond

\* LogRender.__call__ with show_time, show_level, omit_repeated_times and no
\* path: the row of the grid, and _last_time afterwards
log_render(last_time, log_time, level, message) ==
    LET display == TimeDisplay(log_time)
        repeated == last_time = <<display>>
    IN  [row |-> [time    |-> IF repeated THEN <<>> ELSE <<display>>,
                  level   |-> level,
                  message |-> message],
         last_time |-> IF repeated THEN last_time ELSE <<display>>]

\* a variant of console_print that lets the exception go
console_print_Raises(r, rendered, printOutcome) ==
    IF printOutcome = "ok"
    THEN [r EXCEPT !.printed = <<rendered>>]
    ELSE [r EXCEPT !.exc = printOutcome]

\* try: self.console.print(rendered) / except: self.error(traceback.format_exc())
\* r is the call's record so far; the traceback names the exception caught
console_print(r, rendered, printOutcome) ==
    IF printOutcome = "ok"
    THEN [r EXCEPT !.printed = <<rendered>>]
    ELSE [r EXCEPT !.reported = <<[traceback |-> printOutcome]>>]

\* What one access call does, every step of it.  printOutcome is what
\* console.print does: "ok", or the exception it raises.  exc is the
\* exception that leaves access ("none" when it returns).
AccessCall(c, atoms, mapping, last_time, log_time, printOutcome) ==
    LET idle == [exc |-> "none", atomsRead |-> FALSE, mapping |-> mapping,
                 last_time |-> last_time, colorized |-> <<>>, message |-> <<>>,
                 badge |-> <<>>, printed |-> <<>>, reported |-> <<>>]
    IN
    IF LoggingDisabled(c) THEN idle
    ELSE
    LET read == [idle EXCEPT !.atomsRead = TRUE]
        col  == colorize_atoms(SafeAtoms(atoms))
    IN
    IF col.exc # "none" THEN [read EXCEPT !.exc = col.exc]
    ELSE
    LET msg == from_markup(LOG_FORMAT(col.atoms))
        r1 == [read EXCEPT !.colorized = <<col.atoms>>]
    IN
    IF msg.exc # "none" THEN [r1 EXCEPT !.exc = msg.exc]
    ELSE
    LET r2 == [r1 EXCEPT !.message = <<[plain |-> msg.plain, spans |-> msg.spans]>>]
    IN
    IF "s" \notin DOMAIN atoms THEN [r2 EXCEPT !.exc = "KeyError"]
    ELSE IF atoms["s"] = <<>> THEN [r2 EXCEPT !.exc = "IndexError"]
    ELSE
    LET sd == setdefault(mapping, atoms["s"][1].val, "")
        status == StatusText(atoms["s"], sd.value)
        rendered == log_render(last_time, log_time, status, r2.message[1])
        r3 == [r2 EXCEPT !.mapping = sd.mapping,
                         !.badge = <<status>>,
                         !.last_time = rendered.last_time]
    IN  console_print(r3, rendered.row, printOutcome)

----------------------------------------------------------------------------
(* The requests of the model: two well-formed atom mappings, and each of   *)
(* them with one field replaced or missing.                                *)

Txt(chars) == [i \in 1..Len(chars) |-> T(chars[i])]

FastRequest ==
    [m |-> <<T("GET")>>, U |-> <<T("/health")>>, q |-> <<>>,
     L |-> Txt(<<"0", ".", "0", "0", "3">>), s |-> Txt(<<"2", "0", "0">>),
     f |-> <<T("GET /health HTTP/1.1")>>]

SlowRequest ==
    [m |-> <<T("POST")>>, U |-> <<T("/jobs")>>, q |-> <<T("id=7")>>,
     L |-> Txt(<<"2", ".", "5">>), s |-> Txt(<<"5", "0", "3">>),
     f |-> <<T("-")>>]

FieldValues(k) ==
    CASE k = "m" -> {<<>>}
      [] k = "U" -> {<<T("/a"), Close("")>>, <<Open("b"), T("/a")>>}
      [] k = "q" -> {<<T("x"), Close("b")>>}
      [] k = "L" -> {Txt(<<"1", ".", "0">>), Txt(<<"1", ".", "0", "1">>),
                     Txt(<<"2">>), Txt(<<"-", "3">>), Txt(<<".">>), <<T("fast")>>}
      [] k = "s" -> {Txt(<<"1", "0", "1">>), Txt(<<"3", "0", "2">>),
                     Txt(<<"4", "0", "4">>), Txt(<<"6", "0", "0">>),
                     Txt(<<"-">>), <<>>}
      [] k = "f" -> {<<T("ref"), T("\""), T("x")>>}

Without(atoms, k) == [x \in DOMAIN atoms \ {k} |-> atoms[x]]

Requests ==
    LET bases == {FastRequest} IN
    bases \cup {SlowRequest}
    \cup {[b EXCEPT ![k] = v] : <<b, k, v>> \in
             {<<b, k, v>> \in bases \X Fields \X UNION {FieldValues(k) : k \in Fields} :
                 v \in FieldValues(k)}}
    \cup {Without(b, k) : <<b, k>> \in bases \X Fields}
    \cup {Without(Without(b, "L"), "s") : b \in bases}

PrintOutcomes == {"ok", "BrokenPipeError"}

----------------------------------------------------------------------------
(* Logger._set_handler *)

Channels == {"error", "access", "other"}

\* the output argument: None, "-" (a stream) or a file name
Outputs == {"None", "-", "file"}

\* gunicorn's Logger._get_gunicorn_handler: the index of the first handler
\* with a true _gunicorn attribute, 0 when there is none
get_gunicorn_handler(hs) ==
    LET tagged == {i \in 1..Len(hs) : hs[i].gunicorn}
    IN  IF tagged = {} THEN 0 ELSE CHOOSE i \in tagged : \A j \in tagged : i <= j

\* h = self._get_gunicorn_handler(log); if h: log.handlers.remove(h)
RemovePrevious(hs) ==
    LET i == get_gunicorn_handler(hs)
    IN  IF i = 0 THEN hs ELSE RemoveAt(hs, i)

\* a variant of ShowPath that tests the wrong channel
ShowPath_Access(log) == log = "access"

\* show_path=log == self.error_log
ShowPath(log) == log = "error"

\* RichHandler(console=..., rich_tracebacks=True, log_time_format="[%X]",
\*             show_path=...) with h._gunicorn = True
NewRichHandler(log, id) ==
    [cls |-> "RichHandler", gunicorn |-> TRUE, show_path |-> ShowPath(log), id |-> id]

\* log == self.error_log or log == self.access_log
IsAdapterChannel(log) == log = "error" \/ log = "access"

\* gunicorn's Logger._set_handler, reached through super()._set_handler
BaseSetHandler(hs, output, id) ==
    LET kept == RemovePrevious(hs)
    IN  IF output = "None" THEN kept
        ELSE Append(kept, [cls |-> IF output = "-" THEN "StreamHandler"
                                   ELSE "FileHandler",
                           gunicorn |-> TRUE, show_path |-> FALSE, id |-> id])

\* the handler list of log after _set_handler(log, output, fmt)
set_handler(hs, log, output, id) ==
    IF IsAdapterChannel(log)
    THEN Append(RemovePrevious(hs), NewRichHandler(log, id))
    ELSE BaseSetHandler(hs, output, id)

\* gunicorn's Logger._set_syslog_handler: a SysLogHandler with _gunicorn = True
SyslogHandler(id) ==
    [cls |-> "SysLogHandler", gunicorn |-> TRUE, show_path |-> FALSE, id |-> id]

\* a handler the application attaches itself with log.addHandler
ForeignHandler(id) ==
    [cls |-> "Handler", gunicorn |-> FALSE, show_path |-> FALSE, id |-> id]

\* gunicorn's Logger.setup(cfg), run by super().__init__: the error log's
\* handler, the access log's when cfg.accesslog is set, then the syslog
\* handlers when cfg.syslog is set
SetupHandlers(c) ==
    LET e1 == set_handler(<<>>, "error", "-", 1)
        a1 == IF c.accesslog THEN set_handler(<<>>, "access", "-", 2) ELSE <<>>
    IN  [ch \in Channels |->
            CASE ch = "error"  -> IF c.syslog THEN Append(e1, SyslogHandler(3)) ELSE e1
              [] ch = "access" -> IF c.syslog THEN Append(a1, SyslogHandler(4)) ELSE a1
              [] ch = "other"  -> <<>>]

FirstFreeId == 5

----------------------------------------------------------------------------
(* State machine *)

Idle == [op |-> "init", log |-> "", output |-> "", atoms |-> <<>>,
         printOutcome |-> "", result |-> <<>>]

Init ==
    /\ cfg \in [accesslog : BOOLEAN, logconfig : BOOLEAN, syslog : BOOLEAN]
    /\ handlers = SetupHandlers(cfg)
    /\ nextId = FirstFreeId
    /\ CODE_COLOR_MAPPING = BuiltinMapping
    /\ lastTime = <<>>
    /\ now = 0
    /\ last = Idle

\* the wall clock advances
Tick ==
    /\ now < MaxClock
    /\ now' = now + 1
    /\ UNCHANGED <<cfg, handlers, nextId, CODE_COLOR_MAPPING, lastTime, last>>

\* self.access(resp, req, environ, request_time), with atoms what
\* self.atoms(resp, req, environ, request_time) returns
Access(atoms, printOutcome) ==
    \E r \in {AccessCall(cfg, atoms, CODE_COLOR_MAPPING, lastTime, now, printOutcome)} :
        /\ CODE_COLOR_MAPPING' = r.mapping
        /\ lastTime' = r.last_time
        /\ last' = [Idle EXCEPT !.op = "access", !.atoms = <<atoms>>,
                                !.printOutcome = printOutcome, !.result = <<r>>]
        /\ UNCHANGED <<cfg, handlers, nextId, now>>

\* self._set_handler(log, output, fmt)
SetHandler(log, output) ==
    /\ nextId <= MaxSinks
    /\ handlers' = [handlers EXCEPT ![log] = set_handler(@, log, output, nextId)]
    /\ nextId' = nextId + 1
    /\ last' = [Idle EXCEPT !.op = "_set_handler", !.log = log, !.output = output]
    /\ UNCHANGED <<cfg, CODE_COLOR_MAPPING, lastTime, now>>

\* the host attaches its syslog handler to the error or the access log
\* (gunicorn's Logger.setup, run again when the host reloads, with syslog on)
HostSyslog(log) ==
    /\ cfg.syslog
    /\ nextId <= MaxSinks
    /\ handlers' = [handlers EXCEPT ![log] = Append(@, SyslogHandler(nextId))]
    /\ nextId' = nextId + 1
    /\ last' = [Idle EXCEPT !.op = "syslog", !.log = log]
    /\ UNCHANGED <<cfg, CODE_COLOR_MAPPING, lastTime, now>>

\* the application attaches a handler of its own to a channel
AddHandler(log) ==
    /\ nextId <= MaxSinks
    /\ handlers' = [handlers EXCEPT ![log] = Append(@, ForeignHandler(nextId))]
    /\ nextId' = nextId + 1
    /\ last' = [Idle EXCEPT !.op = "addHandler", !.log = log]
    /\ UNCHANGED <<cfg, CODE_COLOR_MAPPING, lastTime, now>>

Next ==
    \/ Tick
    \/ \E atoms \in Requests, p \in PrintOutcomes : Access(atoms, p)

Spec == Init /\ [][Next]_vars

NextSink ==
    \/ \E log \in Channels, output \in Outputs : SetHandler(log, output)
    \/ \E log \in {"error", "access"} : HostSyslog(log)
    \/ \E log \in Channels : AddHandler(log)

SpecSink == Init /\ [][NextSink]_vars

----------------------------------------------------------------------------
(* Properties *)

\* the most recent call was an access call; R is what it did
AccessDone == last.op = "access"
R == last.result[1]
GivenAtoms == last.atoms[1]

\* a string without its markup tags
Plain(str) == SelectSeq(str, LAMBDA tok : tok.kind = "text")

\* the number of handlers of a list that this adapter installed
IsAdapterSink(h) == h.cls = "RichHandler"
AdapterSinks(hs) == SelectSeq(hs, IsAdapterSink)
OtherSinks(hs) == SelectSeq(hs, LAMBDA h : ~IsAdapterSink(h))

\* C1: an access call with logging enabled returns normally whatever atom
\* mapping it is given: no exception leaves access.
C1_AccessNeverRaises ==
    AccessDone => R.exc = "none"

\* C2: when a field the access path reads (m, U, q, L, s or f) is missing
\* from the atom mapping, access does not raise and renders that field as
\* the placeholder "-"; this for each of the six fields.
C2_MissingFieldIsPlaceholder ==
    (AccessDone /\ R.atomsRead) =>
        \A k \in Fields \ DOMAIN GivenAtoms :
            /\ R.exc = "none"
            /\ R.colorized # <<>>
            /\ R.badge # <<>>
            /\ IF k = "s" THEN R.badge[1].plain = <<"-">>
               ELSE /\ k \in DOMAIN R.colorized[1]
                    /\ Plain(R.colorized[1][k]) = <<T("-")>>

\* C3: right after a _set_handler call on the access-log or error-log
\* channel, the channel holds exactly one sink installed by this adapter,
\* whatever other sinks are attached to it.
C3_ExactlyOneAdapterSink ==
    (last.op = "_set_handler" /\ IsAdapterChannel(last.log)) =>
        Len(AdapterSinks(handlers[last.log])) = 1

\* C4: a _set_handler call on the access-log or error-log channel removes
\* no sink but the adapter's own: the sinks others attached are still
\* there, in the same order, and every other channel is unchanged.
C4_OnlyAdapterSinkRemoved ==
    [][(last'.op = "_set_handler" /\ IsAdapterChannel(last'.log)
          /\ nextId' = nextId + 1) =>
        /\ OtherSinks(handlers'[last'.log]) = OtherSinks(handlers[last'.log])
        /\ \A ch \in Channels \ {last'.log} : handlers'[ch] = handlers[ch]]_vars

\* C5: access calls leave the status-class colour map as it was built:
\* after any sequence of calls it has its five built-in entries only.
C5_MappingNeverWritten ==
    CODE_COLOR_MAPPING = BuiltinMapping

\* C6: whenever access reaches the status badge (the status code is there
\* and not empty), the badge is bold plus the colour of the status class
\* ('1' yellow, '2' green, '3' cyan, '4' magenta, '5' red), bold with no
\* colour for any other first character, and the lookup raises nothing;
\* this after any earlier access calls.
C6_BadgeStyle ==
    (AccessDone /\ R.message # <<>>
        /\ "s" \in DOMAIN GivenAtoms /\ GivenAtoms["s"] # <<>>) =>
        LET c == GivenAtoms["s"][1].val
            expected == CASE c = "1" -> "yellow"
                          [] c = "2" -> "green"
                          [] c = "3" -> "cyan"
                          [] c = "4" -> "magenta"
                          [] c = "5" -> "red"
                          [] OTHER -> ""
        IN  /\ R.exc = "none"
            /\ R.badge # <<>>
            /\ ParseStyle(R.badge[1].style) = [bold |-> TRUE, color |-> expected]

C6_Witness ==
    /\ AccessDone /\ R.badge # <<>>
    /\ GivenAtoms["s"][1].val = "6"
    /\ "-" \in DOMAIN CODE_COLOR_MAPPING

\* C7: when the latency is numeric, colorize_atoms wraps it in "red bold"
\* exactly when its value is strictly greater than 1 and leaves it as it
\* was otherwise (1 included); method, path and query are always wrapped
\* (blue bold, cyan, cyan); the status and the request line are untouched.
C7_Colorize ==
    (AccessDone /\ R.colorized # <<>>) =>
        LET safe == SafeAtoms(GivenAtoms)
            col == R.colorized[1]
            before(k) == SafeGet(safe, k)
            f == float(before("L"))
            tagged(k, style) == <<Open(style)>> \o before(k) \o <<Close("")>>
        IN  /\ f.ok
            /\ (~f.neg /\ f.num > f.den) => col["L"] = tagged("L", "red bold")
            /\ (f.neg \/ f.num <= f.den) => SafeGet(col, "L") = before("L")
            /\ col["m"] = tagged("m", "blue bold")
            /\ col["U"] = tagged("U", "cyan")
            /\ col["q"] = tagged("q", "cyan")
            /\ \A k \in {"s", "f"} :
                  /\ k \in DOMAIN col <=> k \in DOMAIN safe
                  /\ SafeGet(col, k) = before(k)

C7_Witness ==
    /\ AccessDone /\ R.colorized # <<>>
    /\ GivenAtoms["L"] = Txt(<<"1", ".", "0">>)
    /\ R.colorized[1]["L"] = Txt(<<"1", ".", "0">>)

C9_ShowPath ==
    /\ \A i \in 1..Len(handlers["error"]) :
          IsAdapterSink(handlers["error"][i]) => handlers["error"][i].show_path
    /\ \A i \in 1..Len(handlers["access"]) :
          IsAdapterSink(handlers["access"][i]) => ~handlers["access"][i].show_path
    /\ \A ch \in Channels \ {"error", "access"} : AdapterSinks(handlers[ch]) = <<>>
    /\ (last.op = "_set_handler" /\ ~IsAdapterChannel(last.log)) =>
          LET hs == handlers[last.log]
              mine == {i \in 1..Len(hs) : hs[i].id = nextId - 1}
          IN  IF last.output = "None" THEN mine = {}
              ELSE /\ mine = {Len(hs)}
                   /\ hs[Len(hs)].gunicorn
                   /\ hs[Len(hs)].cls = IF last.output = "-" THEN "StreamHandler"
                                        ELSE "FileHandler"

C9_Witness ==
    /\ last.op = "_set_handler" /\ last.log = "other" /\ last.output = "-"
    /\ AdapterSinks(handlers["error"]) # <<>>
    /\ AdapterSinks(handlers["access"]) # <<>>
    /\ Len(handlers["other"]) > 1

\* C10: when printing the rendered row raises, access catches it, forwards
\* exactly one traceback to self.error and returns; when printing succeeds,
\* or is never reached, nothing is forwarded.
C10_PrintFailureReported ==
    AccessDone =>
        IF R.badge # <<>> /\ last.printOutcome # "ok"
        THEN /\ R.reported = <<[traceback |-> last.printOutcome]>>
             /\ R.printed = <<>>
             /\ R.exc = "none"
        ELSE R.reported = <<>>

C10_Witness ==
    AccessDone /\ last.printOutcome = "BrokenPipeError" /\ Len(R.reported) = 1

====
